---- MODULE Spec2Model ----
(***************************************************************************)
(* Credit ledger and one-time redeem codes of tg_phone_lookup_bot_credits. *)
(* The store is one sqlite3 connection (DB): statements act on the         *)
(* connection's view (users, codes) and DB.commit() makes that view        *)
(* durable (disk_users, disk_codes).  Every core operation runs its *_sync *)
(* body under DB_LOCK; the bodies are modelled statement by statement.     *)
(***************************************************************************)
EXTENDS Integers, Sequences, FiniteSets, TLC

\* ---------------------------------------------------------------- bounds
MaxCalls == 2        \* handler invocations started in one behaviour
MaxTime == 3         \* last clock reading
TicksPerDay == 2     \* clock readings per calendar date

\* ------------------------------------------------------ program constants
DAILY_FREE_CREDITS == 30
CREDIT_COST_PER_LOOKUP == 1
NULL == 0            \* SQL NULL / Python None in an id, date or timestamp column

Tasks == {1, 2}      \* handler invocations in flight at once
UserIds == {1, 2}
ADMIN_IDS == {1}
Tokens == {1, 2}     \* values secrets.token_urlsafe can return
Amounts == {5}
Deltas == {0 - 31, 0 - 1, 2}
Limits == {1, 2}
Times == 1..MaxTime

\* date.today().isoformat(): the calendar date of a clock reading
Date(ts) == (ts - 1) \div TicksPerDay + 1
Dates == {Date(ts) : ts \in Times}

\* answers of the external lookup API, by the branch of num_cmd they take
Responses == {"exception", "status_not_200", "no_records_message", "status_error",
              "unknown_dict", "bad_format", "empty_records", "records"}

VARIABLES
    users,          \* users table as the connection sees it: user_id -> row
    codes,          \* codes table as the connection sees it: code -> row
    disk_users,     \* users table as last committed
    disk_codes,     \* codes table as last committed
    lock,           \* DB_LOCK: the task holding it, or NULL
    now,            \* the clock: its latest reading
    task,           \* per task: the handler it runs and its locals
    calls,          \* invocations started so far
    credited,       \* history: code -> users whose balance received its amount
    disk_credited,  \* history: credited, as last committed
    grants,         \* history: <<user, date>> -> daily grants applied
    wins,           \* history: code -> redeem_code calls that returned success
    losses          \* history: code -> redeem_code calls that returned 'Code already used'

storeVars == <<users, codes, credited>>
diskVars == <<disk_users, disk_codes, disk_credited>>
histVars == <<grants, wins, losses>>
vars == <<users, codes, disk_users, disk_codes, lock, now, task, calls,
          credited, disk_credited, grants, wins, losses>>

\* ---------------------------------------------------------------- helpers
Max0_NoClamp(x) == x
Max0(x) == IF x > 0 THEN x ELSE 0

NoRet == [ok |-> FALSE, info |-> "none", val |-> 0, rows |-> <<>>]
IntRet(n) == [ok |-> TRUE, info |-> "", val |-> n, rows |-> <<>>]
FailRet(msg) == [ok |-> FALSE, info |-> msg, val |-> 0, rows |-> <<>>]
RowsRet(rows) == [ok |-> TRUE, info |-> "", val |-> 0, rows |-> rows]

IdleTask == [cmd |-> "idle", stage |-> "none", op |-> "none", pc |-> "idle",
             user |-> NULL, arg |-> 0, r |-> <<>>, rr |-> <<>>, today |-> NULL,
             ret |-> NoRet, resp |-> "none", seen |-> 0, reply |-> "none",
             raw |-> <<>>]

NewUser(c, d) == [credits |-> c, last_topup_date |-> d]

ensure_user_sync_Reset(us, u) == (u :> NewUser(0, NULL)) @@ us
\* ensure_user_sync: the users table after it
ensure_user_sync(us, u) == IF u \in DOMAIN us THEN us ELSE us @@ (u :> NewUser(0, NULL))

\* DB.commit(): the connection's view becomes the durable one
Commit == /\ disk_users' = users'
          /\ disk_codes' = codes'
          /\ disk_credited' = credited'

LockFree_NoExclusion == TRUE
LockFree == lock = NULL

Set(t, rec) == task' = [task EXCEPT ![t] = rec]

\* init_db() opens the database file: a new one on the first run, or the one
\* earlier runs of the bot left.  The latter holds what one day of use leaves:
\* user 2 got the daily grant at clock reading 1 and has one credit left, and
\* admin 1 issued code 1, still unused, without an account row of its own.
StoredUsers == 2 :> NewUser(1, Date(1))
StoredCodes == 1 :> [amount |-> 5, created_by |-> 1, created_at |-> 1,
                     used_by |-> NULL, used_at |-> NULL]
DatabaseFiles == {[users |-> << >>, codes |-> << >>],
                  [users |-> StoredUsers, codes |-> StoredCodes]}

Init ==
    /\ \E db \in DatabaseFiles :
          /\ users = db.users
          /\ codes = db.codes
          /\ disk_users = db.users
          /\ disk_codes = db.codes
          /\ grants = [p \in UserIds \X Dates |->
                          IF p[1] \in DOMAIN db.users /\ db.users[p[1]].last_topup_date = p[2]
                          THEN 1 ELSE 0]
    /\ lock = NULL
    /\ now = 1
    /\ task = [t \in Tasks |-> IdleTask]
    /\ calls = 0
    /\ credited = [c \in Tokens |-> <<>>]
    /\ disk_credited = [c \in Tokens |-> <<>>]
    /\ wins = [c \in Tokens |-> 0]
    /\ losses = [c \in Tokens |-> 0]

\* now_iso() / date.today(): a reading of the clock, never before the last one
ReadClock(ts) == ts \in now..MaxTime /\ now' = ts

frame == <<now, grants, wins, losses>>

\* ------------------------------------------------- invoking an operation
Free(t) == task[t].cmd = "idle"

\* an update arrives: its handler runs as a new task, in the first free slot
Start(t, cmdName, opName, u, a) ==
    /\ Free(t)
    /\ \A t2 \in Tasks : t2 < t => ~Free(t2)
    /\ calls < MaxCalls
    /\ calls' = calls + 1
    /\ Set(t, [IdleTask EXCEPT !.cmd = cmdName, !.op = opName, !.pc = "wait",
                               !.user = u, !.arg = a,
                               !.stage = IF cmdName \in {"num_cmd", "credits_cmd"}
                                         THEN "ensure" ELSE "none"])
    /\ UNCHANGED <<storeVars, diskVars, lock, frame>>

CallEnsureUser(t, u) == Start(t, "ensure_user", "ensure_user", u, 0)
CallTopup(t, u) == Start(t, "topup_if_needed", "topup_if_needed", u, 0)
CallGetCredits(t, u) == Start(t, "get_credits", "get_credits", u, 0)
CallChangeCredits(t, u, d) == Start(t, "change_credits", "change_credits", u, d)
CallGenerateCode(t, a, u) == Start(t, "generate_code", "generate_code", u, a)
CallRedeemCode(t, c, u) == Start(t, "redeem_code", "redeem_code", u, c)
CallListCodes(t, l) == Start(t, "list_codes", "list_codes", NULL, l)
CallNumCmd(t, u) == Start(t, "num_cmd", "ensure_user", u, 0)

\* async with DB_LOCK: entry
Acquire(t) ==
    /\ task[t].pc = "wait"
    /\ LockFree
    /\ lock' = t
    /\ Set(t, [task[t] EXCEPT !.pc = "body"])
    /\ UNCHANGED <<storeVars, diskVars, calls, frame>>

Release_KeepsLock(t) ==
    /\ task[t].pc = "ret"
    /\ IF task[t].cmd \in {"num_cmd", "credits_cmd"}
       THEN Set(t, [task[t] EXCEPT !.pc = "done", !.r = <<>>, !.rr = <<>>, !.today = NULL])
       ELSE Set(t, IdleTask)
    /\ UNCHANGED <<storeVars, diskVars, lock, calls, frame>>

\* async with DB_LOCK: exit.  The operation returns: to num_cmd or credits_cmd,
\* which go on with the returned value, or to a caller that ends there (the
\* slot is free again)
Release(t) ==
    /\ task[t].pc = "ret"
    /\ lock' = NULL
    /\ IF task[t].cmd \in {"num_cmd", "credits_cmd"}
       THEN Set(t, [task[t] EXCEPT !.pc = "done", !.r = <<>>, !.rr = <<>>, !.today = NULL])
       ELSE Set(t, IdleTask)
    /\ UNCHANGED <<storeVars, diskVars, calls, frame>>

\* cur.fetchone() of a SELECT by primary key: <<>> is None
FetchCredits(us, u) == IF u \in DOMAIN us THEN <<us[u].credits>> ELSE <<>>
FetchUser(us, u) == IF u \in DOMAIN us THEN <<us[u].credits, us[u].last_topup_date>> ELSE <<>>
FetchCode_Default(cs, c) == IF c \in DOMAIN cs THEN <<cs[c].amount, cs[c].used_by>> ELSE <<0, NULL>>
FetchCode(cs, c) == IF c \in DOMAIN cs THEN <<cs[c].amount, cs[c].used_by>> ELSE <<>>

\* INSERT INTO users / UPDATE users ... WHERE user_id = ?
InsertUser(us, u, row) == IF u \in DOMAIN us THEN us ELSE us @@ (u :> row)
UpdateCredits_ResetsDate(us, u, c) ==
    IF u \in DOMAIN us THEN [us EXCEPT ![u] = NewUser(c, NULL)] ELSE us
UpdateCredits(us, u, c) == IF u \in DOMAIN us THEN [us EXCEPT ![u].credits = c] ELSE us
UpdateTopup(us, u, c, d) == IF u \in DOMAIN us THEN [us EXCEPT ![u] = NewUser(c, d)] ELSE us

\* ------------------------------------------------------------ ensure_user
EnsureUserBody(t) ==
    LET u == task[t].user IN
    /\ task[t].op = "ensure_user" /\ task[t].pc = "body"
    /\ users' = ensure_user_sync(users, u)
    /\ UNCHANGED <<codes, credited>>
    /\ IF u \in DOMAIN users THEN UNCHANGED diskVars ELSE Commit
    /\ Set(t, [task[t] EXCEPT !.pc = "ret", !.ret = NoRet])
    /\ UNCHANGED <<lock, calls, frame>>

\* ------------------------------------------------------------ get_credits
GcEnsure(t) ==
    LET u == task[t].user IN
    /\ task[t].op = "get_credits" /\ task[t].pc = "body"
    /\ users' = ensure_user_sync(users, u)
    /\ UNCHANGED <<codes, credited>>
    /\ IF u \in DOMAIN users THEN UNCHANGED diskVars ELSE Commit
    /\ Set(t, [task[t] EXCEPT !.pc = "gc_read"])
    /\ UNCHANGED <<lock, calls, frame>>

GcRead(t) ==
    LET r == FetchCredits(users, task[t].user) IN
    /\ task[t].op = "get_credits" /\ task[t].pc = "gc_read"
    /\ Set(t, [task[t] EXCEPT !.pc = "ret", !.r = r,
                              !.ret = IntRet(IF r # <<>> THEN r[1] ELSE 0)])
    /\ UNCHANGED <<storeVars, diskVars, lock, calls, frame>>

\* --------------------------------------------------------- change_credits
CcEnsure(t) ==
    LET u == task[t].user IN
    /\ task[t].op = "change_credits" /\ task[t].pc = "body"
    /\ users' = ensure_user_sync(users, u)
    /\ UNCHANGED <<codes, credited>>
    /\ IF u \in DOMAIN users THEN UNCHANGED diskVars ELSE Commit
    /\ Set(t, [task[t] EXCEPT !.pc = "cc_select"])
    /\ UNCHANGED <<lock, calls, frame>>

CcSelect(t) ==
    /\ task[t].op = "change_credits" /\ task[t].pc = "cc_select"
    /\ Set(t, [task[t] EXCEPT !.pc = "cc_write", !.r = FetchCredits(users, task[t].user)])
    /\ UNCHANGED <<storeVars, diskVars, lock, calls, frame>>

CcWrite(t) ==
    LET u == task[t].user
        delta == task[t].arg
        r == task[t].r
        new == IF r = <<>> THEN Max0(delta) ELSE Max0(r[1] + delta)
    IN
    /\ task[t].op = "change_credits" /\ task[t].pc = "cc_write"
    /\ users' = IF r = <<>> THEN InsertUser(users, u, NewUser(new, NULL))
                            ELSE UpdateCredits(users, u, new)
    /\ UNCHANGED <<codes, credited>>
    /\ Commit
    /\ Set(t, [task[t] EXCEPT !.pc = "ret", !.ret = IntRet(new)])
    /\ UNCHANGED <<lock, calls, frame>>

\* -------------------------------------------------------- topup_if_needed
TopupDue_Always(last_date, today) == TRUE
TopupDue_Never(last_date, today) == FALSE
TopupDue(last_date, today) == last_date # today

TuSelect(t) ==
    /\ task[t].op = "topup_if_needed" /\ task[t].pc = "body"
    /\ \E ts \in Times :
          /\ ReadClock(ts)
          /\ Set(t, [task[t] EXCEPT !.pc = "tu_write", !.today = Date(ts),
                                    !.r = FetchUser(users, task[t].user)])
    /\ UNCHANGED <<storeVars, diskVars, lock, calls, grants, wins, losses>>

TuWrite(t) ==
    LET u == task[t].user
        today == task[t].today
        r == task[t].r
    IN
    /\ task[t].op = "topup_if_needed" /\ task[t].pc = "tu_write"
    /\ IF r = <<>>
       THEN /\ users' = InsertUser(users, u, NewUser(DAILY_FREE_CREDITS, today))
            /\ UNCHANGED <<codes, credited>>
            /\ Commit
            /\ grants' = [grants EXCEPT ![<<u, today>>] = @ + 1]
            /\ Set(t, [task[t] EXCEPT !.pc = "ret", !.ret = IntRet(DAILY_FREE_CREDITS)])
       ELSE IF TopupDue(r[2], today)
       THEN /\ users' = UpdateTopup(users, u, r[1] + DAILY_FREE_CREDITS, today)
            /\ UNCHANGED <<codes, credited>>
            /\ Commit
            /\ grants' = [grants EXCEPT ![<<u, today>>] = @ + 1]
            /\ Set(t, [task[t] EXCEPT !.pc = "ret",
                                      !.ret = IntRet(r[1] + DAILY_FREE_CREDITS)])
       ELSE /\ UNCHANGED <<storeVars, diskVars, grants>>
            /\ Set(t, [task[t] EXCEPT !.pc = "ret", !.ret = IntRet(r[1])])
    /\ UNCHANGED <<lock, calls, now, wins, losses>>

\* ---------------------------------------------------------- generate_code
NewCode(amount, created_by, created_at) ==
    [amount |-> amount, created_by |-> created_by, created_at |-> created_at,
     used_by |-> NULL, used_at |-> NULL]

GenInsert(t) ==
    /\ task[t].op = "generate_code" /\ task[t].pc = "body"
    /\ \E token \in Tokens, created_at \in Times :
          /\ ReadClock(created_at)
          /\ IF token \in DOMAIN codes
             THEN \* PRIMARY KEY violation: the INSERT raises, nothing is written
                  /\ UNCHANGED <<storeVars, diskVars>>
                  /\ Set(t, [task[t] EXCEPT !.pc = "ret", !.ret = FailRet("IntegrityError")])
             ELSE /\ codes' = codes @@ (token :> NewCode(task[t].arg, task[t].user, created_at))
                  /\ UNCHANGED <<users, credited>>
                  /\ Commit
                  /\ Set(t, [task[t] EXCEPT !.pc = "ret", !.ret = IntRet(token)])
    /\ UNCHANGED <<lock, calls, grants, wins, losses>>

\* ------------------------------------------------------------ redeem_code
CodeUsed_Never(used_by) == FALSE
CodeUsed(used_by) == used_by # NULL

RcSelect(t) ==
    LET c == task[t].arg
        r == FetchCode(codes, c)
    IN
    /\ task[t].op = "redeem_code" /\ task[t].pc = "body"
    /\ IF r = <<>>
       THEN /\ Set(t, [task[t] EXCEPT !.pc = "ret", !.r = r, !.ret = FailRet("Code not found")])
            /\ UNCHANGED losses
       ELSE IF CodeUsed(r[2])
       THEN /\ Set(t, [task[t] EXCEPT !.pc = "ret", !.r = r,
                                      !.ret = FailRet("Code already used")])
            /\ losses' = [losses EXCEPT ![c] = @ + 1]
       ELSE /\ Set(t, [task[t] EXCEPT !.pc = "rc_mark", !.r = r])
            /\ UNCHANGED losses
    /\ UNCHANGED <<storeVars, diskVars, lock, calls, now, grants, wins>>

RcMark(t) ==
    LET c == task[t].arg IN
    /\ task[t].op = "redeem_code" /\ task[t].pc = "rc_mark"
    /\ \E used_at \in Times :
          /\ ReadClock(used_at)
          /\ codes' = IF c \in DOMAIN codes
                      THEN [codes EXCEPT ![c].used_by = task[t].user, ![c].used_at = used_at]
                      ELSE codes
    /\ UNCHANGED <<users, credited>>
    /\ Set(t, [task[t] EXCEPT !.pc = "rc_seluser"])
    /\ UNCHANGED <<diskVars, lock, calls, grants, wins, losses>>

RcSelectUser(t) ==
    /\ task[t].op = "redeem_code" /\ task[t].pc = "rc_seluser"
    /\ Set(t, [task[t] EXCEPT !.pc = "rc_write", !.rr = FetchCredits(users, task[t].user)])
    /\ UNCHANGED <<storeVars, diskVars, lock, calls, frame>>

RcWrite(t) ==
    LET u == task[t].user
        c == task[t].arg
        amount == task[t].r[1]
        rr == task[t].rr
    IN
    /\ task[t].op = "redeem_code" /\ task[t].pc = "rc_write"
    /\ users' = IF rr = <<>> THEN InsertUser(users, u, NewUser(amount, NULL))
                             ELSE UpdateCredits(users, u, rr[1] + amount)
    /\ credited' = [credited EXCEPT ![c] = Append(@, u)]
    /\ UNCHANGED codes
    /\ Commit
    /\ wins' = [wins EXCEPT ![c] = @ + 1]
    /\ Set(t, [task[t] EXCEPT !.pc = "ret", !.ret = IntRet(amount)])
    /\ UNCHANGED <<lock, calls, now, grants, losses>>

\* ------------------------------------------------------------- list_codes
CodeRow(cs, c) == [code |-> c, amount |-> cs[c].amount, created_by |-> cs[c].created_by,
                   created_at |-> cs[c].created_at, used_by |-> cs[c].used_by,
                   used_at |-> cs[c].used_at]

OrderedCodes_Ascending(cs) ==
    {s \in [1..Cardinality(DOMAIN cs) -> DOMAIN cs] :
        /\ \A i, j \in DOMAIN s : i # j => s[i] # s[j]
        /\ \A i, j \in DOMAIN s : i < j => cs[s[i]].created_at <= cs[s[j]].created_at}
\* the orders ORDER BY created_at DESC may produce (ties in any order)
OrderedCodes(cs) ==
    {s \in [1..Cardinality(DOMAIN cs) -> DOMAIN cs] :
        /\ \A i, j \in DOMAIN s : i # j => s[i] # s[j]
        /\ \A i, j \in DOMAIN s : i < j => cs[s[i]].created_at >= cs[s[j]].created_at}

Min(a, b) == IF a < b THEN a ELSE b

LcSelect(t) ==
    /\ task[t].op = "list_codes" /\ task[t].pc = "body"
    /\ \E s \in OrderedCodes(codes) :
          Set(t, [task[t] EXCEPT !.pc = "ret",
                     !.ret = RowsRet([i \in 1..Min(task[t].arg, Len(s)) |-> CodeRow(codes, s[i])])])
    /\ UNCHANGED <<storeVars, diskVars, lock, calls, frame>>

\* ---------------------------------------------------------------- num_cmd
IsAdmin_Everyone(u) == TRUE
\* user_id in ADMIN_IDS
IsAdmin(u) == u \in ADMIN_IDS

Insufficient_Never(credits) == credits < 0
\* credits < CREDIT_COST_PER_LOOKUP
Insufficient(credits) == credits < CREDIT_COST_PER_LOOKUP

LookupOutcome_EmptyCounts(resp) ==
    IF resp \in {"records", "empty_records"} THEN "results" ELSE "no_result"
\* what num_cmd makes of the API's answer: "results" when filtered_list is non-empty
LookupOutcome(resp) ==
    CASE resp = "exception" -> "error"
      [] resp = "status_not_200" -> "bad_status"
      [] resp = "no_records_message" -> "no_result"
      [] resp = "status_error" -> "api_error"
      [] resp = "unknown_dict" -> "unexpected"
      [] resp = "bad_format" -> "unexpected"
      [] resp = "empty_records" -> "no_result"
      [] resp = "records" -> "results"

\* after ensure_user: await topup_if_needed(user_id)
NumTopup(t) ==
    /\ task[t].cmd = "num_cmd" /\ task[t].stage = "ensure" /\ task[t].pc = "done"
    /\ Set(t, [task[t] EXCEPT !.stage = "topup", !.op = "topup_if_needed", !.pc = "wait"])
    /\ UNCHANGED <<storeVars, diskVars, lock, calls, frame>>

\* after topup_if_needed: non-admins have their credits read, admins go to the lookup
NumGate(t) ==
    /\ task[t].cmd = "num_cmd" /\ task[t].stage = "topup" /\ task[t].pc = "done"
    /\ IF IsAdmin(task[t].user)
       THEN Set(t, [task[t] EXCEPT !.stage = "lookup", !.op = "none", !.pc = "io"])
       ELSE Set(t, [task[t] EXCEPT !.stage = "check", !.op = "get_credits", !.pc = "wait"])
    /\ UNCHANGED <<storeVars, diskVars, lock, calls, frame>>

\* credits = await get_credits(user_id); reject or start the lookup
NumCheck(t) ==
    LET credits == task[t].ret.val IN
    /\ task[t].cmd = "num_cmd" /\ task[t].stage = "check" /\ task[t].pc = "done"
    /\ IF Insufficient(credits)
       THEN Set(t, [IdleTask EXCEPT !.seen = credits, !.reply = "insufficient"])
       ELSE Set(t, [task[t] EXCEPT !.stage = "lookup", !.op = "none", !.pc = "io",
                                   !.seen = credits])
    /\ UNCHANGED <<storeVars, diskVars, lock, calls, frame>>

\* the external lookup answers; credits are deducted only for a non-empty result
NumLookup(t) ==
    /\ task[t].cmd = "num_cmd" /\ task[t].stage = "lookup" /\ task[t].pc = "io"
    /\ \E resp \in Responses :
          IF LookupOutcome(resp) # "results"
          THEN Set(t, [IdleTask EXCEPT !.reply = LookupOutcome(resp)])
          ELSE IF ~IsAdmin(task[t].user)
          THEN Set(t, [task[t] EXCEPT !.stage = "deduct", !.op = "change_credits",
                                      !.arg = 0 - CREDIT_COST_PER_LOOKUP, !.pc = "wait",
                                      !.resp = resp])
          ELSE Set(t, [IdleTask EXCEPT !.reply = "served"])
    /\ UNCHANGED <<storeVars, diskVars, lock, calls, frame>>

\* after the deduction: rem = await get_credits(user_id)
NumFooter(t) ==
    /\ task[t].cmd = "num_cmd" /\ task[t].stage = "deduct" /\ task[t].pc = "done"
    /\ Set(t, [task[t] EXCEPT !.stage = "footer", !.op = "get_credits", !.pc = "wait"])
    /\ UNCHANGED <<storeVars, diskVars, lock, calls, frame>>

NumDone(t) ==
    /\ task[t].cmd = "num_cmd" /\ task[t].stage = "footer" /\ task[t].pc = "done"
    /\ Set(t, [IdleTask EXCEPT !.reply = "served"])
    /\ UNCHANGED <<storeVars, diskVars, lock, calls, frame>>

\* ------------------------------------------- the other command handlers
\* context.args of /code and of /redeem
CodeArgs == {<<>>, <<"abc">>, <<"-5">>, <<"0">>, <<"5">>}
RedeemArgs == {<<>>} \cup {<<c>> : c \in Tokens}

\* int(text) for the texts that are integers; on any other text it raises
IntLiterals == ("-5" :> (0 - 5)) @@ ("0" :> 0) @@ ("5" :> 5)

AmountRejected_NegativeOnly(text) ==
    text \notin DOMAIN IntLiterals \/ IntLiterals[text] < 0
\* amount = int(context.args[0]); if amount <= 0: raise ValueError() -- caught
AmountRejected(text) ==
    text \notin DOMAIN IntLiterals \/ IntLiterals[text] <= 0

\* rows = await list_codes(limit=200)
ListLimit == 200

\* an update with a command arrives: its handler runs as a new task
Handle(t, cmdName, u, args) ==
    /\ Free(t)
    /\ \A t2 \in Tasks : t2 < t => ~Free(t2)
    /\ calls < MaxCalls
    /\ calls' = calls + 1
    /\ Set(t, [IdleTask EXCEPT !.cmd = cmdName, !.pc = "entry", !.user = u, !.raw = args])
    /\ UNCHANGED <<storeVars, diskVars, lock, frame>>

CallCreditsCmd(t, u) == Start(t, "credits_cmd", "ensure_user", u, 0)
CallRedeemCmd(t, u, args) == Handle(t, "redeem_cmd", u, args)
CallCodeCmd(t, u, args) == Handle(t, "code_cmd", u, args)
CallCodesListCmd(t, u) == Handle(t, "codes_list_cmd", u, <<>>)

\* credits_cmd: ensure_user, topup_if_needed, get_credits, then the reply
CreditsTopup(t) ==
    /\ task[t].cmd = "credits_cmd" /\ task[t].stage = "ensure" /\ task[t].pc = "done"
    /\ Set(t, [task[t] EXCEPT !.stage = "topup", !.op = "topup_if_needed", !.pc = "wait"])
    /\ UNCHANGED <<storeVars, diskVars, lock, calls, frame>>

CreditsGet(t) ==
    /\ task[t].cmd = "credits_cmd" /\ task[t].stage = "topup" /\ task[t].pc = "done"
    /\ Set(t, [task[t] EXCEPT !.stage = "check", !.op = "get_credits", !.pc = "wait"])
    /\ UNCHANGED <<storeVars, diskVars, lock, calls, frame>>

CreditsReply(t) ==
    /\ task[t].cmd = "credits_cmd" /\ task[t].stage = "check" /\ task[t].pc = "done"
    /\ Set(t, [IdleTask EXCEPT !.seen = task[t].ret.val,
                               !.reply = IF IsAdmin(task[t].user) THEN "unlimited"
                                                                  ELSE "credits"])
    /\ UNCHANGED <<storeVars, diskVars, lock, calls, frame>>

\* redeem_cmd: usage without argument, else redeem_code(args[0], user_id)
RedeemCmdEntry(t) ==
    /\ task[t].cmd = "redeem_cmd" /\ task[t].pc = "entry"
    /\ IF task[t].raw = <<>>
       THEN Set(t, [IdleTask EXCEPT !.reply = "usage"])
       ELSE Set(t, [task[t] EXCEPT !.op = "redeem_code", !.arg = task[t].raw[1],
                                   !.pc = "wait"])
    /\ UNCHANGED <<storeVars, diskVars, lock, calls, frame>>

\* code_cmd: admins only, with a positive integer amount, else a reply and return
CodeCmdEntry(t) ==
    /\ task[t].cmd = "code_cmd" /\ task[t].pc = "entry"
    /\ IF ~IsAdmin(task[t].user)
       THEN Set(t, [IdleTask EXCEPT !.reply = "only_admin_create"])
       ELSE IF task[t].raw = <<>>
       THEN Set(t, [IdleTask EXCEPT !.reply = "usage"])
       ELSE IF AmountRejected(task[t].raw[1])
       THEN Set(t, [IdleTask EXCEPT !.reply = "invalid_amount"])
       ELSE Set(t, [task[t] EXCEPT !.op = "generate_code",
                                   !.arg = IntLiterals[task[t].raw[1]], !.pc = "wait"])
    /\ UNCHANGED <<storeVars, diskVars, lock, calls, frame>>

\* codes_list_cmd: admins only
CodesListEntry(t) ==
    /\ task[t].cmd = "codes_list_cmd" /\ task[t].pc = "entry"
    /\ IF ~IsAdmin(task[t].user)
       THEN Set(t, [IdleTask EXCEPT !.reply = "only_admin_view"])
       ELSE Set(t, [task[t] EXCEPT !.op = "list_codes", !.arg = ListLimit, !.pc = "wait"])
    /\ UNCHANGED <<storeVars, diskVars, lock, calls, frame>>

\* ------------------------------------------------------- storage failures
\* A statement of redeem_code_sync after the mark raises (sqlite3.Error).  No
\* handler rolls back: the marked row stays in the connection's open
\* transaction, unless sqlite rolled the transaction back itself.
RedeemFails(t) ==
    /\ task[t].op = "redeem_code" /\ task[t].pc \in {"rc_seluser", "rc_write"}
    /\ \E rolled_back \in BOOLEAN :
          IF rolled_back
          THEN /\ users' = disk_users
               /\ codes' = disk_codes
               /\ credited' = disk_credited
          ELSE UNCHANGED storeVars
    /\ Set(t, [task[t] EXCEPT !.pc = "ret", !.ret = FailRet("sqlite3.Error")])
    /\ UNCHANGED <<diskVars, lock, calls, frame>>

\* ------------------------------------------------------------------ Next
Next ==
    \/ \E t \in Tasks, u \in UserIds : CallEnsureUser(t, u)
    \/ \E t \in Tasks, u \in UserIds : CallTopup(t, u)
    \/ \E t \in Tasks, u \in UserIds : CallGetCredits(t, u)
    \/ \E t \in Tasks, u \in UserIds, d \in Deltas : CallChangeCredits(t, u, d)
    \/ \E t \in Tasks, a \in Amounts, u \in UserIds : CallGenerateCode(t, a, u)
    \/ \E t \in Tasks, c \in Tokens, u \in UserIds : CallRedeemCode(t, c, u)
    \/ \E t \in Tasks, l \in Limits : CallListCodes(t, l)
    \/ \E t \in Tasks, u \in UserIds : CallNumCmd(t, u)
    \/ \E t \in Tasks : Acquire(t)
    \/ \E t \in Tasks : Release(t)
    \/ \E t \in Tasks : EnsureUserBody(t)
    \/ \E t \in Tasks : GcEnsure(t)
    \/ \E t \in Tasks : GcRead(t)
    \/ \E t \in Tasks : CcEnsure(t)
    \/ \E t \in Tasks : CcSelect(t)
    \/ \E t \in Tasks : CcWrite(t)
    \/ \E t \in Tasks : TuSelect(t)
    \/ \E t \in Tasks : TuWrite(t)
    \/ \E t \in Tasks : GenInsert(t)
    \/ \E t \in Tasks : RcSelect(t)
    \/ \E t \in Tasks : RcMark(t)
    \/ \E t \in Tasks : RcSelectUser(t)
    \/ \E t \in Tasks : RcWrite(t)
    \/ \E t \in Tasks : LcSelect(t)
    \/ \E t \in Tasks : NumTopup(t)
    \/ \E t \in Tasks : NumGate(t)
    \/ \E t \in Tasks : NumCheck(t)
    \/ \E t \in Tasks : NumLookup(t)
    \/ \E t \in Tasks : NumFooter(t)
    \/ \E t \in Tasks : NumDone(t)

Spec == Init /\ [][Next]_vars

NextFault == Next \/ \E t \in Tasks : RedeemFails(t)

SpecFault == Init /\ [][NextFault]_vars

\* Scheduling.  The event loop runs every task that is ready; asyncio.Lock
\* wakes its waiters in the order they asked, so a task that keeps asking for
\* the lock gets it once the lock has been released often enough.
TaskStep(t) ==
    \/ Release(t)
    \/ EnsureUserBody(t)
    \/ GcEnsure(t) \/ GcRead(t)
    \/ CcEnsure(t) \/ CcSelect(t) \/ CcWrite(t)
    \/ TuSelect(t) \/ TuWrite(t)
    \/ GenInsert(t)
    \/ RcSelect(t) \/ RcMark(t) \/ RcSelectUser(t) \/ RcWrite(t)
    \/ LcSelect(t)
    \/ NumTopup(t) \/ NumGate(t) \/ NumCheck(t) \/ NumLookup(t) \/ NumFooter(t)
    \/ NumDone(t)

Fairness == \A t \in Tasks : SF_vars(Acquire(t)) /\ WF_vars(TaskStep(t))

SpecLive == Init /\ [][Next]_vars /\ Fairness

\* the bot as main() runs it: operations are invoked by the command handlers only
NextBot ==
    \/ \E t \in Tasks, u \in UserIds : CallCreditsCmd(t, u)
    \/ \E t \in Tasks, u \in UserIds, args \in RedeemArgs : CallRedeemCmd(t, u, args)
    \/ \E t \in Tasks, u \in UserIds, args \in CodeArgs : CallCodeCmd(t, u, args)
    \/ \E t \in Tasks, u \in UserIds : CallCodesListCmd(t, u)
    \/ \E t \in Tasks, u \in UserIds : CallNumCmd(t, u)
    \/ \E t \in Tasks : CreditsTopup(t)
    \/ \E t \in Tasks : CreditsGet(t)
    \/ \E t \in Tasks : CreditsReply(t)
    \/ \E t \in Tasks : RedeemCmdEntry(t)
    \/ \E t \in Tasks : CodeCmdEntry(t)
    \/ \E t \in Tasks : CodesListEntry(t)
    \/ \E t \in Tasks : Acquire(t)
    \/ \E t \in Tasks : Release(t)
    \/ \E t \in Tasks : EnsureUserBody(t)
    \/ \E t \in Tasks : GcEnsure(t)
    \/ \E t \in Tasks : GcRead(t)
    \/ \E t \in Tasks : CcEnsure(t)
    \/ \E t \in Tasks : CcSelect(t)
    \/ \E t \in Tasks : CcWrite(t)
    \/ \E t \in Tasks : TuSelect(t)
    \/ \E t \in Tasks : TuWrite(t)
    \/ \E t \in Tasks : GenInsert(t)
    \/ \E t \in Tasks : RcSelect(t)
    \/ \E t \in Tasks : RcMark(t)
    \/ \E t \in Tasks : RcSelectUser(t)
    \/ \E t \in Tasks : RcWrite(t)
    \/ \E t \in Tasks : LcSelect(t)
    \/ \E t \in Tasks : NumTopup(t)
    \/ \E t \in Tasks : NumGate(t)
    \/ \E t \in Tasks : NumCheck(t)
    \/ \E t \in Tasks : NumLookup(t)
    \/ \E t \in Tasks : NumFooter(t)
    \/ \E t \in Tasks : NumDone(t)

SpecBot == Init /\ [][NextBot]_vars

\* ================================================================ claims
Stepped(t) == task'[t] # task[t]

Balance(us, u) == IF u \in DOMAIN us THEN us[u].credits ELSE 0

Returned(t, opName) == task[t].op = opName /\ task[t].pc = "ret"

\* C1: of the redeem_code calls racing on one code exactly one returns success
\* with the code's amount, every other one returns 'Code already used', and the
\* amount is added to a balance exactly once.
C1_ExactlyOneRedeemWins ==
    \A c \in Tokens :
        /\ wins[c] <= 1
        /\ Len(credited[c]) <= 1
        /\ losses[c] > 0 => wins[c] = 1 /\ Len(credited[c]) = 1
        /\ \A t \in Tasks :
              Returned(t, "redeem_code") /\ task[t].arg = c /\ c \in DOMAIN codes =>
                 \/ /\ task[t].ret.ok
                    /\ task[t].ret.val = codes[c].amount
                    /\ codes[c].used_by = task[t].user
                    /\ credited[c] = <<task[t].user>>
                    /\ Balance(users, task[t].user) =
                          (IF task[t].rr = <<>> THEN 0 ELSE task[t].rr[1]) + codes[c].amount
                 \/ task[t].ret = FailRet("Code already used")

\* a second redeemer of a code has lost against the first one
C1_Witness ==
    \E t \in Tasks, c \in Tokens :
        /\ Returned(t, "redeem_code") /\ task[t].arg = c
        /\ task[t].ret = FailRet("Code already used")
        /\ wins[c] = 1 /\ losses[c] = 1
        /\ credited[c] # <<task[t].user>>

\* the code's mark and the credit agree
MarkMatchesCredit(cs, cr) ==
    \A c \in DOMAIN cs :
        cr[c] = IF cs[c].used_by = NULL THEN <<>> ELSE <<cs[c].used_by>>

MidRedeem(t) == task[t].op = "redeem_code" /\ task[t].pc \in {"rc_seluser", "rc_write"}

\* C2: a state in which a code is marked used without its credit (or the
\* reverse) exists only while the redeeming task holds DB_LOCK between its two
\* writes, so no other core operation observes it.
C2_MarkAndCreditTogether ==
    MarkMatchesCredit(codes, credited) \/ \E t \in Tasks : lock = t /\ MidRedeem(t)

\* the half-done redemption, with another operation waiting for the lock
C2_Witness ==
    \E t, t2 \in Tasks :
        /\ lock = t /\ MidRedeem(t)
        /\ ~MarkMatchesCredit(codes, credited)
        /\ task[t2].pc = "wait"

\* C3 (as claimed): the persisted store never holds a code marked used without
\* the redeemer's credit, nor the credit without the mark, whatever storage
\* failure interrupted redeem_code.
C3_DurableMarkMatchesCredit == MarkMatchesCredit(disk_codes, disk_credited)

\* C4: the daily grant is applied at most once per user and calendar date; a
\* call on the date of the last grant returns the balance it found, unchanged.
C4_DailyGrantOnce ==
    /\ \A p \in UserIds \X Dates : grants[p] <= 1
    /\ \A t \in Tasks :
          Returned(t, "topup_if_needed") =>
             /\ task[t].ret.val = Balance(users, task[t].user)
             /\ users[task[t].user].last_topup_date = task[t].today
             /\ grants[<<task[t].user, task[t].today>>] = 1
             /\ (task[t].r # <<>> /\ task[t].r[2] = task[t].today) =>
                    task[t].ret.val = task[t].r[1]

\* a call on a date whose grant was already applied
C4_Witness ==
    \E t \in Tasks :
        /\ Returned(t, "topup_if_needed")
        /\ task[t].r # <<>> /\ task[t].r[2] = task[t].today
        /\ grants[<<task[t].user, task[t].today>>] = 1

\* C5: every account has credits >= 0, in the connection's view and on disk.
C5_CreditsNonNegative ==
    /\ \A u \in DOMAIN users : users[u].credits >= 0
    /\ \A u \in DOMAIN disk_users : disk_users[u].credits >= 0

\* a deduction larger than the balance has been clamped
C5_Witness ==
    \E t \in Tasks :
        /\ Returned(t, "change_credits")
        /\ task[t].r # <<>> /\ task[t].r[1] > 0 /\ task[t].r[1] + task[t].arg < 0
        /\ users[task[t].user].credits = 0

\* C6: every operation on an account takes effect in one step on the account as
\* it is at that moment, and returns the balance that step leaves, as in a
\* sequential execution of the calls (no update is lost).
C6_NoLostUpdate ==
    [][\A t \in Tasks :
          LET u == task[t].user
              b == Balance(users, u)
          IN
          /\ (task[t].pc = "cc_write" /\ Stepped(t)) =>
                /\ Balance(users', u) = Max0(b + task[t].arg)
                /\ task'[t].ret.val = Max0(b + task[t].arg)
          /\ (task[t].pc = "tu_write" /\ Stepped(t)) =>
                /\ Balance(users', u) \in {b, b + DAILY_FREE_CREDITS}
                /\ task'[t].ret.val = Balance(users', u)
          /\ (task[t].pc = "rc_write" /\ Stepped(t)) =>
                Balance(users', u) = b + task[t].r[1]
          /\ (task[t].pc = "gc_read" /\ Stepped(t)) =>
                task'[t].ret.val = b
          /\ \A u2 \in DOMAIN users :
                (Stepped(t) /\ u2 # u) => u2 \in DOMAIN users' /\ users'[u2] = users[u2]
      ]_vars

\* two operations on one account at once: one has written, the other waits
C6_Witness ==
    \E t, t2 \in Tasks :
        /\ t # t2 /\ task[t].user = task[t2].user
        /\ Returned(t, "change_credits") /\ task[t].r # <<>> /\ task[t].r[1] > 0
        /\ task[t2].pc = "wait"
        /\ task[t2].op \in {"topup_if_needed", "change_credits", "redeem_code"}

PastGate(t) == task[t].cmd = "num_cmd" /\ task[t].stage \notin {"ensure", "topup"}

\* C7: after its daily-grant step a num_cmd of a standard user changes the
\* users table only by deducting CREDIT_COST_PER_LOOKUP, and only once the
\* lookup has answered with a non-empty record; a lookup that fails or yields
\* nothing ends the request with the table as it was.
C7_DeductOnlyAfterResult ==
    [][\A t \in Tasks :
          (PastGate(t) /\ Stepped(t)) =>
             /\ users' # users =>
                   /\ task[t].stage = "deduct" /\ task[t].resp = "records"
                   /\ users' = [users EXCEPT ![task[t].user].credits =
                                                 Max0(@ - CREDIT_COST_PER_LOOKUP)]
             /\ task'[t].stage = "deduct" => task'[t].resp = "records"
             /\ (task[t].stage = "lookup" /\ task'[t].stage # "deduct") =>
                   /\ task'[t].cmd = "idle"
                   /\ IsAdmin(task[t].user) \/ task'[t].reply # "served"
                   /\ UNCHANGED <<storeVars, diskVars>>
      ]_vars

\* a standard user's request ended on a lookup without result, the balance
\* read at the gate still in place
C7_Witness ==
    \E t \in Tasks, u \in UserIds \ ADMIN_IDS :
        /\ task[t].reply = "no_result"
        /\ u \in DOMAIN users
        /\ users[u].credits = DAILY_FREE_CREDITS
        /\ calls = 1

\* C8: when the balance read after the daily-grant step is below the cost,
\* num_cmd ends with the insufficient-credits reply carrying that balance,
\* starts no lookup and leaves the store unchanged; a standard user's lookup is
\* only ever started with a balance of at least the cost.
C8_RejectBelowCost ==
    [][\A t \in Tasks :
          /\ (task[t].cmd = "num_cmd" /\ task[t].stage = "check" /\ task[t].pc = "done"
                /\ Stepped(t) /\ task[t].ret.val < CREDIT_COST_PER_LOOKUP) =>
                /\ task'[t] = [IdleTask EXCEPT !.reply = "insufficient",
                                               !.seen = task[t].ret.val]
                /\ UNCHANGED <<storeVars, diskVars>>
          /\ (task'[t].pc = "io" /\ ~IsAdmin(task'[t].user)) =>
                task'[t].seen >= CREDIT_COST_PER_LOOKUP
      ]_vars

\* a request was rejected with a balance of 0
C8_Witness ==
    \E t \in Tasks :
        task[t].cmd = "idle" /\ task[t].reply = "insufficient" /\ task[t].seen = 0

\* C9 (as claimed): no step of a num_cmd run by an admin changes that admin's
\* account row (credits, last_topup_date).
C9_AdminRowUntouched ==
    [][\A t \in Tasks :
          LET u == task[t].user IN
          (task[t].cmd = "num_cmd" /\ IsAdmin(u) /\ Stepped(t) /\ u \in DOMAIN users) =>
             users'[u] = users[u]
      ]_vars

\* C10: a redeemed code is terminal: its row never changes again, and every
\* later redeem_code on it returns 'Code already used' and changes nothing.
C10_UsedCodeIsTerminal ==
    [][/\ \A c \in DOMAIN codes :
             codes[c].used_by # NULL => c \in DOMAIN codes' /\ codes'[c] = codes[c]
       /\ \A t \in Tasks :
             LET c == task[t].arg IN
             (task[t].op = "redeem_code" /\ task[t].pc = "body" /\ Stepped(t)
                /\ c \in DOMAIN codes /\ codes[c].used_by # NULL) =>
                /\ task'[t].pc = "ret"
                /\ task'[t].ret = FailRet("Code already used")
                /\ UNCHANGED <<storeVars, diskVars>>
      ]_vars

\* a redeem_code on a code another user had redeemed at an earlier time
C10_Witness ==
    \E t \in Tasks :
        LET c == task[t].arg IN
        /\ Returned(t, "redeem_code") /\ task[t].ret = FailRet("Code already used")
        /\ codes[c].used_by # task[t].user
        /\ codes[c].used_at # NULL

\* C11: redeem_code on a code that is not in the codes table returns the
\* failure 'Code not found' and leaves the store as it was, in the connection
\* and on disk: no account is created, no balance and no code row changes.
C11_UnknownCodeChangesNothing ==
    [][\A t \in Tasks :
          LET c == task[t].arg IN
          /\ (task[t].op = "redeem_code" /\ task[t].pc = "body" /\ Stepped(t)
                /\ c \notin DOMAIN codes) =>
                /\ task'[t].pc = "ret"
                /\ task'[t].ret = FailRet("Code not found")
                /\ UNCHANGED <<storeVars, diskVars>>
          /\ (Returned(t, "redeem_code") /\ task[t].ret = FailRet("Code not found")
                /\ Stepped(t)) =>
                UNCHANGED <<storeVars, diskVars>>
      ]_vars

\* a user without an account was told 'Code not found' while another code is
\* in the table; neither an account nor a row for the unknown code appeared
C11_Witness ==
    \E t \in Tasks :
        /\ Returned(t, "redeem_code") /\ task[t].ret = FailRet("Code not found")
        /\ task[t].arg \notin DOMAIN codes
        /\ task[t].user \notin DOMAIN users
        /\ DOMAIN codes # {}

\* C14: change_credits(user, delta) on a balance b (0 for an absent account)
\* stores and returns max(0, b + delta): a deduction larger than the balance
\* leaves 0 instead of failing, and the value returned is the balance a
\* get_credits that follows directly reads.
C14_ChangeCreditsClampsAtZero ==
    [][\A t \in Tasks :
          LET u == task[t].user
              b == Balance(users, u)
              want == IF b + task[t].arg > 0 THEN b + task[t].arg ELSE 0
          IN
          /\ (task[t].op = "change_credits" /\ task[t].pc = "body" /\ Stepped(t)) =>
                u \in DOMAIN users' /\ users'[u].credits = b
          /\ (task[t].op = "change_credits" /\ task[t].pc = "cc_write" /\ Stepped(t)) =>
                /\ u \in DOMAIN users' /\ users'[u].credits = want
                /\ task'[t].ret = IntRet(want)
                /\ task'[t].pc = "ret"
                /\ FetchCredits(users', u) = <<task'[t].ret.val>>
      ]_vars

\* an adjustment of an account that did not exist before: 0 + delta was stored
\* and returned
C14_Witness ==
    \E t \in Tasks :
        /\ Returned(t, "change_credits")
        /\ task[t].r = <<0>> /\ task[t].arg > 0
        /\ task[t].ret.val = task[t].arg
        /\ users[task[t].user] = NewUser(task[t].arg, NULL)

LastTopup(us, u) == IF u \in DOMAIN us THEN us[u].last_topup_date ELSE NULL

\* C15: a topup_if_needed for a user whose last_topup_date is not today's date
\* (null and an absent account included) adds exactly DAILY_FREE_CREDITS to the
\* balance, sets last_topup_date to today and returns the new balance; calls
\* on two different dates each add DAILY_FREE_CREDITS.
C15_GrantOnNewDate ==
    [][\A t \in Tasks :
          LET u == task[t].user
              b == Balance(users, u)
          IN
          (task[t].op = "topup_if_needed" /\ task[t].pc = "tu_write" /\ Stepped(t)
             /\ LastTopup(users, u) # task[t].today) =>
             /\ u \in DOMAIN users'
             /\ users'[u] = NewUser(b + DAILY_FREE_CREDITS, task[t].today)
             /\ task'[t].ret = IntRet(b + DAILY_FREE_CREDITS)
             /\ grants'[<<u, task[t].today>>] = grants[<<u, task[t].today>>] + 1
      ]_vars

\* the grant of a second date on top of what the first date's grant left
C15_Witness ==
    \E t \in Tasks :
        LET u == task[t].user IN
        /\ Returned(t, "topup_if_needed")
        /\ task[t].r # <<>> /\ task[t].r[2] \notin {NULL, task[t].today}
        /\ grants[<<u, task[t].r[2]>>] = 1 /\ grants[<<u, task[t].today>>] = 1
        /\ task[t].ret.val = task[t].r[1] + DAILY_FREE_CREDITS

\* C16: ensure_user creates an absent account with credits 0 and
\* last_topup_date null and changes nothing for a present one, so that any
\* number of calls leave what one call leaves; the get_credits that follows
\* on an account nothing else touched returns 0.
C16_EnsureUserIdempotent ==
    [][\A t \in Tasks :
          LET u == task[t].user IN
          /\ (task[t].op \in {"ensure_user", "get_credits", "change_credits"}
                /\ task[t].pc = "body" /\ Stepped(t)) =>
                /\ users' = IF u \in DOMAIN users THEN users
                            ELSE [x \in DOMAIN users \cup {u} |->
                                     IF x = u THEN NewUser(0, NULL) ELSE users[x]]
                /\ codes' = codes
          /\ (task[t].op = "get_credits" /\ task[t].pc = "gc_read" /\ Stepped(t)
                /\ u \in DOMAIN users /\ users[u] = NewUser(0, NULL)) =>
                task'[t].ret = IntRet(0)
      ]_vars

\* ensure_user has run on an account that holds credits and a grant date
C16_Witness ==
    \E t \in Tasks :
        LET u == task[t].user IN
        /\ Returned(t, "ensure_user")
        /\ u \in DOMAIN users
        /\ users[u].credits > 0 /\ users[u].last_topup_date # NULL

\* C19: redeem_code and change_credits never change a last_topup_date, and
\* topup_if_needed, ensure_user, get_credits and change_credits never change
\* the codes table; an account created by a redemption or an adjustment has
\* last_topup_date null, and the next topup_if_needed adds DAILY_FREE_CREDITS
\* to the balance it holds.
C19_FrameOfAccountAndCodeWrites ==
    [][\A t \in Tasks :
          LET u == task[t].user IN
          Stepped(t) =>
             /\ task[t].op \in {"redeem_code", "change_credits"} =>
                   \A x \in DOMAIN users' :
                       users'[x].last_topup_date = LastTopup(users, x)
             /\ task[t].op \in {"topup_if_needed", "ensure_user", "get_credits",
                                "change_credits"} =>
                   codes' = codes
             /\ (task[t].pc = "tu_write" /\ u \in DOMAIN users
                   /\ users[u].last_topup_date = NULL) =>
                   users'[u].credits = users[u].credits + DAILY_FREE_CREDITS
      ]_vars

\* the daily grant came on top of a balance an adjustment or a redemption had
\* put on an account without a grant date
C19_Witness ==
    \E t \in Tasks :
        /\ Returned(t, "topup_if_needed")
        /\ task[t].r # <<>> /\ task[t].r[2] = NULL /\ task[t].r[1] > 0
        /\ users[task[t].user] = NewUser(task[t].r[1] + DAILY_FREE_CREDITS, task[t].today)

\* C17: list_codes(limit) returns min(limit, number of codes) rows of the
\* codes table, most recently created first: no returned code was created
\* before one that follows it or before one that is left out; the store is
\* left unchanged.
C17_ListCodesNewestFirst ==
    [][\A t \in Tasks :
          LET limit == task[t].arg
              n == Cardinality(DOMAIN codes)
              rows == task'[t].ret.rows
          IN
          (task[t].op = "list_codes" /\ task[t].pc = "body" /\ Stepped(t)) =>
             /\ task'[t].pc = "ret"
             /\ Len(rows) = IF limit < n THEN limit ELSE n
             /\ \A i \in DOMAIN rows :
                   /\ rows[i].code \in DOMAIN codes
                   /\ rows[i].amount = codes[rows[i].code].amount
                   /\ rows[i].created_by = codes[rows[i].code].created_by
                   /\ rows[i].created_at = codes[rows[i].code].created_at
                   /\ rows[i].used_by = codes[rows[i].code].used_by
                   /\ rows[i].used_at = codes[rows[i].code].used_at
             /\ \A i, j \in DOMAIN rows :
                   i < j => rows[i].code # rows[j].code
                            /\ rows[i].created_at >= rows[j].created_at
             /\ \A c \in DOMAIN codes :
                   (\A i \in DOMAIN rows : rows[i].code # c) =>
                      \A i \in DOMAIN rows : rows[i].created_at >= codes[c].created_at
             /\ UNCHANGED <<storeVars, diskVars>>
      ]_vars

\* list_codes(1) on two codes created at different times returned the later one
C17_Witness ==
    \E t \in Tasks, c \in DOMAIN codes :
        /\ Returned(t, "list_codes") /\ task[t].arg = 1
        /\ Len(task[t].ret.rows) = 1
        /\ task[t].ret.rows[1].code # c
        /\ task[t].ret.rows[1].created_at > codes[c].created_at

\* C12: a /code request of an admin whose amount is not a positive integer
\* ends with the invalid-amount reply and creates no row; every row of the
\* codes table has amount > 0, and a newly created row has used_by and used_at
\* null.
C12_OnlyPositiveAmountsIssued ==
    [][/\ \A t \in Tasks :
             LET args == task[t].raw IN
             /\ (task[t].cmd = "code_cmd" /\ task[t].pc = "entry" /\ Stepped(t)
                   /\ task[t].user \in ADMIN_IDS /\ args # <<>>
                   /\ ~(args[1] \in DOMAIN IntLiterals /\ IntLiterals[args[1]] > 0)) =>
                   /\ task'[t] = [IdleTask EXCEPT !.reply = "invalid_amount"]
                   /\ UNCHANGED <<storeVars, diskVars>>
             /\ (task[t].op = "generate_code" /\ Stepped(t)) => task[t].arg > 0
       /\ \A c \in DOMAIN codes' :
             /\ codes'[c].amount > 0
             /\ c \notin DOMAIN codes =>
                   codes'[c].used_by = NULL /\ codes'[c].used_at = NULL
       /\ \A c \in DOMAIN disk_codes' : disk_codes'[c].amount > 0
      ]_vars

\* of two /code requests to a new database one was refused for its amount; the
\* other one's row is the only one there, amount positive and unused
C12_Witness ==
    \E t \in Tasks, c \in Tokens :
        /\ task[t].reply = "invalid_amount"
        /\ DOMAIN codes = {c} /\ codes # StoredCodes
        /\ codes[c].amount > 0 /\ codes[c].used_by = NULL /\ codes[c].used_at = NULL
        /\ calls = 2

\* C13: a /code request of a user who is not an admin creates no code row, so
\* every code's created_by is an admin; /redeem is open to every user, and a
\* redemption of an unused code succeeds whoever the redeemer is.
C13_IssueAdminOnlyRedeemAnyone ==
    [][/\ \A t \in Tasks :
             LET c == task[t].arg IN
             /\ (task[t].cmd = "code_cmd" /\ task[t].pc = "entry" /\ Stepped(t)
                   /\ task[t].user \notin ADMIN_IDS) =>
                   /\ task'[t] = [IdleTask EXCEPT !.reply = "only_admin_create"]
                   /\ UNCHANGED <<storeVars, diskVars>>
             /\ (task[t].cmd = "redeem_cmd" /\ task[t].pc = "entry" /\ Stepped(t)
                   /\ task[t].raw # <<>>) =>
                   task'[t].op = "redeem_code" /\ task'[t].pc = "wait"
             /\ (task[t].op = "redeem_code" /\ task[t].pc = "body" /\ Stepped(t)
                   /\ c \in DOMAIN codes /\ codes[c].used_by = NULL) =>
                   task'[t].pc = "rc_mark"
             /\ (task[t].op = "redeem_code" /\ task[t].pc = "rc_write" /\ Stepped(t)) =>
                   /\ task'[t].ret = IntRet(codes[c].amount)
                   /\ codes'[c].used_by = task[t].user
       /\ \A c \in DOMAIN codes' : codes'[c].created_by \in ADMIN_IDS
      ]_vars

\* a standard user's /code was refused while a standard user's /redeem succeeded
C13_Witness ==
    \E t, t2 \in Tasks :
        /\ task[t].reply = "only_admin_create"
        /\ task[t2].cmd = "redeem_cmd" /\ Returned(t2, "redeem_code")
        /\ task[t2].ret.ok /\ task[t2].user \notin ADMIN_IDS
        /\ \A c \in DOMAIN codes : codes[c].created_by \in ADMIN_IDS

\* C18 (as claimed): every lookup served with a result to a standard user
\* lowers that user's balance by exactly CREDIT_COST_PER_LOOKUP, also when
\* several num_cmd requests of the user are in flight at once.
C18_EachServedLookupCostsOne ==
    [][\A t \in Tasks :
          LET u == task[t].user IN
          (task[t].cmd = "num_cmd" /\ task[t].stage = "deduct"
             /\ task[t].pc = "cc_write" /\ Stepped(t)) =>
             Balance(users', u) = Balance(users, u) - CREDIT_COST_PER_LOOKUP
      ]_vars

\* where a task is between Acquire and Release
InLock == {"body", "gc_read", "cc_select", "cc_write", "tu_write",
           "rc_mark", "rc_seluser", "rc_write", "ret"}

\* C20: a core operation takes DB_LOCK once, from the free lock, never asks for
\* it while holding it, does not hold it during the external lookup and gives
\* it back on every way out, an exception included; with fair scheduling every
\* operation that was invoked completes, however many callers wait.
C20_LockReleasedAndOpsComplete ==
    /\ [](\A t \in Tasks : lock = t <=> task[t].pc \in InLock)
    /\ [][\A t \in Tasks :
             /\ (lock' = t /\ lock # t) => lock = NULL /\ task[t].pc = "wait"
             /\ (lock = t /\ lock' # t) => lock' = NULL /\ task[t].pc = "ret"
             /\ (lock = t /\ Stepped(t)) => task'[t].pc \in InLock \ {"body"}
                                            \/ lock' = NULL
         ]_vars
    /\ \A t \in Tasks :
          (task[t].pc = "wait") ~> (task[t].pc \in {"idle", "done"})

\* generate_code has raised inside the lock (the token exists) and holds the
\* lock on its way out, while another operation waits for it
C20_Witness ==
    \E t, t2 \in Tasks :
        /\ lock = t /\ Returned(t, "generate_code")
        /\ task[t].ret = FailRet("IntegrityError")
        /\ task[t2].pc = "wait"

====
